---- MODULE Spec2Model ----
(***************************************************************************)
(* Model of website/app.py: a Flask application with three routes.         *)
(*   GET /       home()           renders templates/index.html             *)
(*   GET /docs   docs_redirect()  redirects to /docs/                      *)
(*   GET /docs/  docs_index()     sends the file docs/index.html           *)
(* The module-level content structures are Python globals (mutable lists   *)
(* and dicts); they are state here, so that "no handler mutates them" is   *)
(* something the model checker decides.  A response body is a sequence of  *)
(* text fragments.                                                         *)
(***************************************************************************)
EXTENDS Integers, Sequences, FiniteSets, TLC

\* ------------------------------------------------------------------ bounds

\* Number of requests one run of the server handles.
MaxRequests == 3

\* ------------------------------------------- content literals (app.py 5-141)

NAV_LINKS ==
    << [label |-> "Overview", href |-> "#overview"],
       [label |-> "Features", href |-> "#features"],
       [label |-> "Workflow", href |-> "#workflow"],
       [label |-> "Architecture", href |-> "#architecture"],
       [label |-> "Docs", href |-> "/docs/"] >>

HERO ==
    [ badge |-> "docs.mcp-runtime.org",
      title |-> "Launch MCP servers with a platform, not a patchwork.",
      subtitle |-> "MCP Runtime Platform gives teams a registry, Kubernetes operator, and CLI that standardizes how MCP servers are defined, built, and routed.",
      primary |-> [label |-> "Open Documentation", href |-> "/docs/"],
      secondary |-> [label |-> "View features", href |-> "#features"] ]

AT_A_GLANCE ==
    << "Metadata-driven server definitions in YAML.",
       "Operator creates Deployment, Service, and Ingress automatically.",
       "Internal registry keeps images and metadata in sync.",
       "Unified routes for every server at /{server-name}/mcp." >>

STATS ==
    << [value |-> "1 CLI", label |-> "Unified workflow for platform and servers."],
       [value |-> "3 core services", label |-> "Registry, operator, and cluster helpers."],
       [value |-> "0 bespoke YAML", label |-> "No hand-written manifests for each server."] >>

OVERVIEW ==
    [ title |-> "Why MCP Runtime Platform",
      intro |-> "Move from experiments to production with a clear, repeatable approach to deploying and cataloging MCP servers.",
      items |->
        << [title |-> "Built for scale",
            body |-> "Manage a fleet of MCP servers without third-party gateways or bespoke routing layers."],
           [title |-> "Designed for teams",
            body |-> "A centralized registry and consistent deployment flow make it easy to discover and reuse servers."],
           [title |-> "Opinionated safety",
            body |-> "Promote best practices with standardized metadata and CI-ready pipelines."] >> ]

FEATURES ==
    << [title |-> "Complete platform",
        body |-> "Deploy registry, operator, and helpers in one setup flow built for MCP fleets."],
       [title |-> "CLI tooling",
        body |-> "Manage platform setup, registry operations, and server pipelines from one CLI."],
       [title |-> "Kubernetes operator",
        body |-> "Creates Deployment, Service, and Ingress resources from MCP metadata."],
       [title |-> "Metadata-driven",
        body |-> "Define MCP servers in YAML without hand-writing Kubernetes manifests."],
       [title |-> "Unified routing",
        body |-> "Every MCP server is reachable at a consistent /{server-name}/mcp path."],
       [title |-> "Automated builds",
        body |-> "Build Docker images from metadata and keep registry entries up to date."] >>

WORKFLOW ==
    << [step |-> "01", title |-> "Define",
        body |-> "Capture server metadata in YAML, including name, route, and container port."],
       [step |-> "02", title |-> "Build",
        body |-> "Build Docker images locally or in CI/CD and push them to the registry."],
       [step |-> "03", title |-> "Deploy",
        body |-> "Generate manifests and deploy MCP servers through the operator."],
       [step |-> "04", title |-> "Access",
        body |-> "Reach every MCP server through consistent URLs managed by ingress."] >>

ARCHITECTURE ==
    << [title |-> "Developer workstation",
        body |-> "Define servers, build images, and push updates from local development."],
       [title |-> "CI/CD pipeline",
        body |-> "Build images, publish to the registry, and generate CRDs automatically."],
       [title |-> "Kubernetes cluster",
        body |-> "The operator watches MCPServer resources and provisions services."],
       [title |-> "Internal registry",
        body |-> "Stores MCP server images and keeps metadata in sync for discovery."] >>

CALLOUT ==
    [ title |-> "Active development notice",
      body |-> "MCP Runtime Platform is under active development. APIs, commands, and behavior may change, and production usage is not recommended yet.",
      cta |-> [label |-> "Read the documentation", href |-> "/docs/"] ]

\* ------------------------------------------------------------------- state

VARIABLES
    nav_links,        \* the global NAV_LINKS (a mutable list)
    hero,             \* the global HERO
    at_a_glance,      \* the global AT_A_GLANCE
    stats,            \* the global STATS
    overview,         \* the global OVERVIEW
    features,         \* the global FEATURES
    workflow,         \* the global WORKFLOW
    architecture,     \* the global ARCHITECTURE
    callout,          \* the global CALLOUT
    docs_index_html,  \* the file docs/index.html: [exists, bytes]
    response,         \* the response to the latest request
    rendered,         \* the latest render_template call, <<>> before the first
    log,              \* the requests handled so far, each with its response
    perm              \* history: the order in which the three lists were declared

content ==
    << nav_links, hero, at_a_glance, stats, overview, features, workflow,
       architecture, callout >>

vars ==
    << nav_links, hero, at_a_glance, stats, overview, features, workflow,
       architecture, callout, docs_index_html, response, rendered, log, perm >>

\* The request paths the model sends: the three routes and one path no rule matches.
Paths == {"/", "/docs", "/docs/", "/about"}

\* Contents docs/index.html may have.
DocsBytes == {"<h1>docs v1</h1>", "<h1>docs v2</h1>"}

NoFile == [exists |-> FALSE, bytes |-> ""]

File(b) == [exists |-> TRUE, bytes |-> b]

NoResponse == [status |-> 0, location |-> "", body |-> <<>>]

\* ------------------------------------------------ declaration order (history)

Identity(n) == [i \in 1..n |-> i]

\* The rotations of 1..n: place k holds k + r, wrapping around.
Rotations(n) == { [k \in 1..n |-> ((k - 1 + r) % n) + 1] : r \in 0..(n - 1) }

\* list declared in the order p: place k holds the literal's element p[k].
Permute(list, p) == [k \in 1..Len(list) |-> list[p[k]]]

IdentityOrder ==
    [ nav_links |-> Identity(Len(NAV_LINKS)),
      features |-> Identity(Len(FEATURES)),
      workflow |-> Identity(Len(WORKFLOW)) ]

\* The declaration orders explored: one of the three lists is rotated.
DeclarationOrders ==
    { [IdentityOrder EXCEPT !.nav_links = p] : p \in Rotations(Len(NAV_LINKS)) }
      \cup { [IdentityOrder EXCEPT !.features = p] : p \in Rotations(Len(FEATURES)) }
      \cup { [IdentityOrder EXCEPT !.workflow = p] : p \in Rotations(Len(WORKFLOW)) }

\* ------------------------------------------------- framework calls (app.py 1)

Ok(body) == [status |-> 200, location |-> "", body |-> body]

\* werkzeug.exceptions.NotFound, turned into a response by the framework.
NotFound == [status |-> 404, location |-> "", body |-> <<"Not Found">>]

\* A handler's uncaught exception (jinja2 TemplateNotFound).
InternalServerError ==
    [status |-> 500, location |-> "", body |-> <<"Internal Server Error">>]

\* redirect(location): code defaults to 302.
redirect(location) ==
    [status |-> 302, location |-> location, body |-> <<"Redirecting...", location>>]

\* send_from_directory(directory, path): the file's bytes as read at the time of
\* the call, NotFound when there is no such file.
send_from_directory(directory, path) ==
    IF directory = "docs" /\ path = "index.html" /\ docs_index_html.exists
      THEN Ok(<<docs_index_html.bytes>>)
      ELSE NotFound

\* templates/index.html: the page's text, each content structure in the order given.
index_html(context) ==
    [i \in 1..Len(context.nav_links) |-> context.nav_links[i].label]
      \o << context.hero.badge, context.hero.title, context.hero.subtitle,
            context.hero.primary.label, context.hero.secondary.label >>
      \o context.at_a_glance
      \o [i \in 1..Len(context.stats) |-> context.stats[i].value]
      \o << context.overview.title, context.overview.intro >>
      \o [i \in 1..Len(context.overview.items) |-> context.overview.items[i].title]
      \o [i \in 1..Len(context.features) |-> context.features[i].title]
      \o [i \in 1..Len(context.workflow) |-> context.workflow[i].title]
      \o [i \in 1..Len(context.architecture) |-> context.architecture[i].title]
      \o << context.callout.title, context.callout.body, context.callout.cta.label >>

\* render_template(template_name, **context)
render_template(template_name, context) ==
    IF template_name = "index.html"
      THEN Ok(index_html(context))
      ELSE InternalServerError

\* ------------------------------------------------------------ the handlers

\* The keyword arguments home() passes to render_template.
home_context ==
    [ nav_links |-> nav_links,
      hero |-> hero,
      at_a_glance |-> at_a_glance,
      stats |-> stats,
      overview |-> overview,
      features |-> features,
      workflow |-> workflow,
      architecture |-> architecture,
      callout |-> callout ]

\* home() with a template name no template has.
home_wrong_template ==
    /\ response' = render_template("home.html", home_context)
    /\ rendered' = << [template |-> "home.html", context |-> home_context] >>
    /\ UNCHANGED <<content, docs_index_html>>

\* home() consuming its list: NAV_LINKS.pop() on every call.
home_popping ==
    /\ nav_links' = SubSeq(nav_links, 1, Len(nav_links) - 1)
    /\ response' = render_template("index.html", home_context)
    /\ rendered' = << [template |-> "index.html", context |-> home_context] >>
    /\ UNCHANGED <<hero, at_a_glance, stats, overview, features, workflow,
                   architecture, callout, docs_index_html>>

\* home() passing its lists sorted the other way round: reversed(...).
home_reversing ==
    LET Reverse(list) == [k \in 1..Len(list) |-> list[Len(list) + 1 - k]]
        ctx == [home_context EXCEPT !.nav_links = Reverse(nav_links),
                                    !.features = Reverse(features),
                                    !.workflow = Reverse(workflow)]
    IN  /\ response' = render_template("index.html", ctx)
        /\ rendered' = << [template |-> "index.html", context |-> ctx] >>
        /\ UNCHANGED <<content, docs_index_html>>

\* @app.route("/")
home ==
    /\ response' = render_template("index.html", home_context)
    /\ rendered' = << [template |-> "index.html", context |-> home_context] >>
    /\ UNCHANGED <<content, docs_index_html>>

\* docs_redirect() redirecting to its own path.
docs_redirect_bare ==
    /\ response' = redirect("/docs")
    /\ UNCHANGED <<content, docs_index_html, rendered>>

\* docs_redirect() recording the visit in the navigation list.
docs_redirect_tracking ==
    /\ response' = redirect("/docs/")
    /\ nav_links' = Append(nav_links, [label |-> "Docs (visited)", href |-> "/docs/"])
    /\ UNCHANGED <<hero, at_a_glance, stats, overview, features, workflow,
                   architecture, callout, docs_index_html, rendered>>

\* docs_redirect() refusing to redirect while the docs are missing.
docs_redirect_checking ==
    /\ response' = IF docs_index_html.exists THEN redirect("/docs/") ELSE NotFound
    /\ UNCHANGED <<content, docs_index_html, rendered>>

\* @app.route("/docs")
docs_redirect ==
    /\ response' = redirect("/docs/")
    /\ UNCHANGED <<content, docs_index_html, rendered>>

\* docs_index() keeping the first page it served and serving it from then on.
docs_index_cached ==
    LET served == { i \in 1..Len(log) :
                      log[i].path = "/docs/" /\ log[i].response.status = 200 }
    IN  /\ response' = IF served = {}
                         THEN send_from_directory("docs", "index.html")
                         ELSE log[CHOOSE i \in served : \A j \in served : i <= j].response
        /\ UNCHANGED <<content, docs_index_html, rendered>>

\* docs_index() falling back to the home page when the file is missing.
docs_index_fallback ==
    /\ response' = IF docs_index_html.exists
                     THEN send_from_directory("docs", "index.html")
                     ELSE render_template("index.html", home_context)
    /\ UNCHANGED <<content, docs_index_html, rendered>>

\* @app.route("/docs/")
docs_index ==
    /\ response' = send_from_directory("docs", "index.html")
    /\ UNCHANGED <<content, docs_index_html, rendered>>

\* The rules the three decorators add to app.url_map.
url_map == {"/", "/docs", "/docs/"}

\* A path no rule matches: the framework answers NotFound, no handler runs.
no_route ==
    /\ response' = NotFound
    /\ UNCHANGED <<content, docs_index_html, rendered>>

\* One GET request, dispatched on its path and answered.
Request(path) ==
    /\ Len(log) < MaxRequests
    /\ \/ path = "/" /\ home
       \/ path = "/docs" /\ docs_redirect
       \/ path = "/docs/" /\ docs_index
       \/ path \notin url_map /\ no_route
    /\ log' = Append(log, [path |-> path, file |-> docs_index_html, response |-> response'])
    /\ UNCHANGED perm

\* ---------------------------------------------------------- the file system

\* docs/index.html is written (created or replaced) outside the server.
WriteDocs(b) ==
    /\ docs_index_html # File(b)
    /\ docs_index_html' = File(b)
    /\ UNCHANGED <<content, response, rendered, log, perm>>

\* docs/index.html is removed outside the server.
RemoveDocs ==
    /\ docs_index_html.exists
    /\ docs_index_html' = NoFile
    /\ UNCHANGED <<content, response, rendered, log, perm>>

\* ----------------------------------------------------------- specifications

\* The state once the module is imported with its lists declared in order p.
Started(p) ==
    /\ perm = p
    /\ nav_links = Permute(NAV_LINKS, p.nav_links)
    /\ hero = HERO
    /\ at_a_glance = AT_A_GLANCE
    /\ stats = STATS
    /\ overview = OVERVIEW
    /\ features = Permute(FEATURES, p.features)
    /\ workflow = Permute(WORKFLOW, p.workflow)
    /\ architecture = ARCHITECTURE
    /\ callout = CALLOUT
    /\ docs_index_html \in {NoFile} \cup {File(b) : b \in DocsBytes}
    /\ response = NoResponse
    /\ rendered = <<>>
    /\ log = <<>>

Init == Started(IdentityOrder)

\* The same program with one of its lists declared in another order.
InitDecl == \E p \in DeclarationOrders : Started(p)

Next ==
    \/ \E path \in Paths : Request(path)
    \/ \E b \in DocsBytes : WriteDocs(b)
    \/ RemoveDocs

Spec == Init /\ [][Next]_vars

SpecDecl == InitDecl /\ [][Next]_vars

\* ------------------------------------------------------------------ claims

\* This step handles a request for path.
Handles(path) == Len(log') = Len(log) + 1 /\ log'[Len(log')].path = path

\* The log entries that are requests for path.
Requests(path) == { i \in 1..Len(log) : log[i].path = path }

\* The content structures as the source declares them.
Declared ==
    << NAV_LINKS, HERO, AT_A_GLANCE, STATS, OVERVIEW, FEATURES, WORKFLOW,
       ARCHITECTURE, CALLOUT >>

\* C1: whatever came before and whether or not docs/index.html exists, a request
\* for /docs is answered 302 with Location /docs/, and handling it changes
\* neither the content structures nor the file.
C1_DocsRedirects ==
    [][ Handles("/docs") =>
          /\ response'.status = 302
          /\ response'.location = "/docs/"
          /\ log'[Len(log')].response = response'
          /\ UNCHANGED <<content, docs_index_html>> ]_vars

\* A /docs request answered 302 after an earlier request, with the file absent,
\* and another with the file present.
C1_Witness ==
    /\ \E i \in Requests("/docs") :
         i > 1 /\ ~log[i].file.exists /\ log[i].response.status = 302
    /\ \E i \in Requests("/docs") :
         log[i].file.exists /\ log[i].response.location = "/docs/"

\* C2: a request for /docs/ made while docs/index.html exists is answered 200
\* with exactly the bytes the file holds at that time.
C2_DocsIndexServesFile ==
    \A i \in Requests("/docs/") :
        log[i].file.exists =>
            /\ log[i].response.status = 200
            /\ log[i].response.location = ""
            /\ log[i].response.body = << log[i].file.bytes >>

\* The file was served, then rewritten, then served again with its new bytes.
C2_Witness ==
    \E i, j \in Requests("/docs/") :
        /\ i < j
        /\ log[i].file.exists /\ log[j].file.exists
        /\ log[i].file.bytes # log[j].file.bytes
        /\ log[j].response.body = << log[j].file.bytes >>

\* The server takes requests as long as the run goes on.
Serving == ENABLED (\E path \in Paths : Request(path))

\* C3: a request for /docs/ made while docs/index.html is absent is answered
\* 404; the answer is a response like any other (the server goes on serving),
\* and the request changes neither the content structures nor the file.
C3_DocsIndexMissing ==
    /\ [] \A i \in Requests("/docs/") :
            ~log[i].file.exists => log[i].response.status = 404
    /\ [] ((response.status = 404 /\ Len(log) < MaxRequests) => Serving)
    /\ [][ (Handles("/docs/") /\ ~docs_index_html.exists) =>
             /\ response'.status = 404
             /\ UNCHANGED <<content, docs_index_html>> ]_vars

\* A 404 for /docs/ with the file absent, followed by a request that is served.
C3_Witness ==
    \E i \in Requests("/docs/") :
        /\ ~log[i].file.exists
        /\ log[i].response.status = 404
        /\ i < Len(log)
        /\ log[i + 1].response.status = 200

\* The names home() passes to the template.
ContextNames ==
    { "nav_links", "hero", "at_a_glance", "stats", "overview", "features",
      "workflow", "architecture", "callout" }

\* C4: a request for / is answered 200 with the text of template index.html
\* rendered from HERO (so the body holds HERO's title) and from the navigation,
\* stats, overview, features, workflow, architecture and callout structures,
\* passed under their parameter names.
C4_HomeRendersContent ==
    \A i \in Requests("/") :
        /\ log[i].response.status = 200
        /\ \E k \in 1..Len(log[i].response.body) :
             log[i].response.body[k] = HERO.title
        /\ Len(rendered) = 1
        /\ rendered[1].template = "index.html"
        /\ DOMAIN rendered[1].context = ContextNames
        /\ rendered[1].context.hero = HERO
        /\ rendered[1].context.nav_links = NAV_LINKS
        /\ rendered[1].context.stats = STATS
        /\ rendered[1].context.overview = OVERVIEW
        /\ rendered[1].context.features = FEATURES
        /\ rendered[1].context.workflow = WORKFLOW
        /\ rendered[1].context.architecture = ARCHITECTURE
        /\ rendered[1].context.callout = CALLOUT
        /\ log[i].response.body = index_html(rendered[1].context)

\* The home page was served after requests to the docs routes.
C4_Witness ==
    \E i \in Requests("/") :
        /\ i = Len(log) /\ i > 2
        /\ Requests("/docs") # {} /\ Requests("/docs/") # {}
        /\ log[i].response.status = 200

\* What a server that has handled nothing yet answers.
FirstResponse(path, file) ==
    CASE path = "/" ->
           Ok(index_html([ nav_links |-> NAV_LINKS, hero |-> HERO,
                           at_a_glance |-> AT_A_GLANCE, stats |-> STATS,
                           overview |-> OVERVIEW, features |-> FEATURES,
                           workflow |-> WORKFLOW, architecture |-> ARCHITECTURE,
                           callout |-> CALLOUT ]))
      [] path = "/docs" -> redirect("/docs/")
      [] path = "/docs/" -> IF file.exists THEN Ok(<<file.bytes>>) ELSE NotFound
      [] OTHER -> NotFound

\* The run so far is the three requests /, /docs and /docs/ in some order, made
\* with docs/index.html the same throughout.
ThreeInSomeOrder ==
    /\ Len(log) = 3
    /\ \A path \in url_map : Cardinality(Requests(path)) = 1
    /\ \A i \in 1..Len(log) : log[i].file = log[1].file /\ docs_index_html = log[1].file

\* C5: in whichever order /docs, / and /docs/ are requested, the file system
\* unchanged, each path gets the response it gets when requested first: no
\* handler changes what a later request obtains.
C5_OrderIndependent ==
    ThreeInSomeOrder =>
        \A i \in 1..Len(log) :
            log[i].response = FirstResponse(log[i].path, log[i].file)

\* The three requests in another order than /docs, /, /docs/, the home page last.
C5_Witness ==
    /\ ThreeInSomeOrder
    /\ log[1].path = "/docs/" /\ log[2].path = "/docs" /\ log[3].path = "/"
    /\ log[1].file.exists

C7_HomeIdempotent ==
    \A i, j \in Requests("/") :
        /\ log[i].response.status = log[j].response.status
        /\ log[i].response.body = log[j].response.body

\* The home page served twice with a request to another path in between.
C7_Witness ==
    \E i, j \in Requests("/") :
        /\ j = i + 2
        /\ log[i + 1].path = "/docs/"
        /\ log[i].response.status = 200

\* C8: the nav links, features and workflow steps handed to the template are
\* the declared lists, element by element: declared in the order perm, they are
\* rendered in the order perm, as many as declared.
C8_DeclaredOrderKept ==
    \A n \in 1..Len(rendered) :
        LET ctx == rendered[n].context
        IN  /\ Len(ctx.nav_links) = Len(NAV_LINKS)
            /\ Len(ctx.features) = Len(FEATURES)
            /\ Len(ctx.workflow) = Len(WORKFLOW)
            /\ \A k \in 1..Len(NAV_LINKS) :
                 ctx.nav_links[k] = NAV_LINKS[perm.nav_links[k]]
            /\ \A k \in 1..Len(FEATURES) :
                 ctx.features[k] = FEATURES[perm.features[k]]
            /\ \A k \in 1..Len(WORKFLOW) :
                 ctx.workflow[k] = WORKFLOW[perm.workflow[k]]

\* The home page rendered, a second time, by a program whose features are
\* declared in another order than the source's.
C8_Witness ==
    /\ Len(rendered) = 1
    /\ Cardinality(Requests("/")) = 2
    /\ perm.features # IdentityOrder.features
    /\ rendered[1].context.features[1] = FEATURES[perm.features[1]]

\* C9: the content structures hold their declared values in every state, and
\* no request changes them or the file docs/index.html.
C9_ContentReadOnly ==
    /\ [] (content = Declared)
    /\ [][ (\E path \in Paths : Handles(path)) =>
             UNCHANGED <<content, docs_index_html>> ]_vars

\* All three routes have been requested and the content is as declared.
C9_Witness ==
    /\ \A path \in url_map : Requests(path) # {}
    /\ content = Declared

\* C10 as stated: a request is answered with an error status exactly when it is
\* a request for /docs/ made while docs/index.html is absent.
C10_OnlyMissingDocsFails ==
    \A i \in 1..Len(log) :
        log[i].response.status >= 400
            <=> (log[i].path = "/docs/" /\ ~log[i].file.exists)

\* C10: a request for one of the three routed paths is answered with an error
\* status exactly when it is a request for /docs/ made while docs/index.html is
\* absent; / and /docs never fail. A request for a path with no route is
\* answered 404.
C10_RoutedFailOnlyOnMissingDocs ==
    \A i \in 1..Len(log) :
        /\ log[i].path \in url_map =>
             (log[i].response.status >= 400
                <=> (log[i].path = "/docs/" /\ ~log[i].file.exists))
        /\ log[i].path \notin url_map => log[i].response.status = 404

\* With the file absent: /docs/ failed, / and /docs did not.
C10_Witness ==
    /\ \A i \in 1..Len(log) : ~log[i].file.exists
    /\ \E i \in Requests("/docs/") : log[i].response.status = 404
    /\ \E i \in Requests("/") : log[i].response.status = 200
    /\ \E i \in Requests("/docs") : log[i].response.status = 302

====
